---- MODULE Spec2Model ----
(***************************************************************************)
(* Pharmacies-Review-Analysis: the data preparation pipeline of utils.py,  *)
(* the view filters and KPIs of app.py and the top-performer ranking of    *)
(* plots.py.                                                               *)
(*                                                                         *)
(* A table is a sequence of rows; a row is a record of cells.  A cell is   *)
(* a tagged value [k, n, s]: k is "num" (n is the number, in units of      *)
(* 1/NumScale), "ts" (n is a timestamp), "str" (s is the text) or "nan"    *)
(* (pandas' NaN / NaT).  A text is a sequence of tokens; no token contains *)
(* a comma or a blank, so splitting on ", " or " " is splitting the        *)
(* sequence at those tokens.                                               *)
(***************************************************************************)
EXTENDS Integers, Sequences, FiniteSets, TLC

VARIABLES
    raw,        \* the listings table as read from the sheet (app.py:48)
    data,       \* the listings frame pre_process_listings_data works on in place
    prev,       \* the frame as it was before the latest run of the normalizer
    runs,       \* how many times the normalizer has been applied to `data`
    err,        \* the exception the latest run ended with, or "none"
    srow,       \* the review row handed to calculate_sentiment_score
    score,      \* what calculate_sentiment_score returned for it
    places,     \* the listings frame handed to top_performing_places
    top_places, \* the frame top_performing_places plots
    reviews_data,   \* app.py's global reviews frame
    base,           \* the two frames as pre_process_data returned them (app.py:56)
    pc,             \* where the script run stands: "loaded", or the view that ran
    filtered_data,  \* the frame the view that ran worked out
    kpis,           \* what calculate_kpis returned
    aerr,           \* the exception the view ended with, or "none"
    picked,         \* what the widgets of the view that ran had selected
    rraw,           \* the reviews table as read from the sheet (app.py:49)
    rruns,          \* how many times pre_process_reviews has been applied to reviews_data
    rerr            \* the exception its latest run ended with, or "none"

lvars == <<raw, data, prev, runs, err>>
svars == <<srow, score>>
tvars == <<places, top_places>>
avars == <<reviews_data, base, pc, filtered_data, kpis, aerr, picked>>
rvars == <<rraw, rruns, rerr>>
vars == <<lvars, svars, tvars, avars, rvars>>

\* ------------------------------------------------------------------ bounds

\* rows of a table
MaxRows == 2
\* numbers are kept in units of 1/NumScale, an even number of units
HalfScale == 5
NumScale == 2 * HalfScale
\* the ratings a review row is drawn from: 0..MaxRating
MaxRating == 6
\* rows of the frame handed to top_performing_places
MaxPlaces == 3
\* rows of the reviews table
MaxReviews == 2
\* options a multiselect widget has selected at most
MaxPick == 1
\* a day has DayParts instants
DayParts == 2
\* reviews of one pharmacy in a long reviews frame
MaxKpiRows == 10
\* the review counts of a graded listing: 0..MaxCount
MaxCount == 250
\* rows of a long listings sheet, more than head(30) keeps
MaxLong == 32

\* ------------------------------------------------------------------- cells

Num(n) == [k |-> "num", n |-> n, s |-> <<>>]
Ts(n) == [k |-> "ts", n |-> n, s |-> <<>>]
Str(s) == [k |-> "str", n |-> 0, s |-> s]
NaN == [k |-> "nan", n |-> 0, s |-> <<>>]

\* the number whole + tenths/NumScale
Val(whole, frac) == whole * NumScale + frac

Set(row, col, v) == (col :> v) @@ row

Columns(t) == DOMAIN t[1]

\* a cell that is not yet there
None == [k |-> "none", n |-> 0, s |-> <<>>]

\* ------------------------------------------------------------------- texts

DigitChars == {"0", "1", "2", "3", "4", "5", "6", "7", "8", "9"}

DigitVal(c) ==
    CASE c = "0" -> 0 [] c = "1" -> 1 [] c = "2" -> 2 [] c = "3" -> 3
      [] c = "4" -> 4 [] c = "5" -> 5 [] c = "6" -> 6 [] c = "7" -> 7
      [] c = "8" -> 8 [] c = "9" -> 9

IsDigits(s) == Len(s) > 0 /\ \A i \in 1..Len(s) : s[i] \in DigitChars

RECURSIVE ParseDigits(_)
ParseDigits(s) ==
    IF s = <<>> THEN 0
    ELSE 10 * ParseDigits(SubSeq(s, 1, Len(s) - 1)) + DigitVal(s[Len(s)])

IsPrefix(p, s) == Len(p) <= Len(s) /\ SubSeq(s, 1, Len(p)) = p

\* str.split(sep): the pieces of s between the occurrences of sep, left to right
RECURSIVE SplitFrom(_, _, _)
SplitFrom(s, sep, cur) ==
    IF s = <<>> THEN <<cur>>
    ELSE IF IsPrefix(sep, s)
         THEN <<cur>> \o SplitFrom(SubSeq(s, Len(sep) + 1, Len(s)), sep, <<>>)
         ELSE SplitFrom(Tail(s), sep, Append(cur, Head(s)))

split(s, sep) == SplitFrom(s, sep, <<>>)

CommaBlank == <<",", " ">>
Blank == <<" ">>

\* ''.join(filter(str.isdigit, str(x)))
RECURSIVE FilterDigits(_)
FilterDigits(s) ==
    IF s = <<>> THEN <<>>
    ELSE IF Head(s) \in DigitChars THEN <<Head(s)>> \o FilterDigits(Tail(s))
         ELSE FilterDigits(Tail(s))

\* -------------------------------------------------- adjust_column_datatypes

numeric_cols == {"averageRating", "latitude", "longitude", "totalReviews", "id"}

\* pd.to_numeric(errors='coerce'): a number stays, a text of digits is parsed,
\* anything else becomes NaN
to_numeric(c) ==
    IF c.k = "num" THEN c
    ELSE IF c.k = "str" /\ IsDigits(c.s) THEN Num(ParseDigits(c.s) * NumScale)
    ELSE NaN

\* pd.to_datetime without errors='coerce': raises on a text that is no date
DateParseable(c) == c.k = "str" => IsDigits(c.s)

to_datetime(c) ==
    IF c.k = "ts" THEN c
    ELSE IF c.k = "date" THEN Ts(c.n * DayParts)
    ELSE IF c.k = "num" THEN Ts(c.n)
    ELSE IF c.k = "str" THEN Ts(ParseDigits(c.s))
    ELSE NaN

\* str(x) of a cell, as far as its digits go
StrOf(c) ==
    IF c.k = "str" THEN c.s
    ELSE IF c.k = "nan" THEN <<"nan">>
    ELSE <<>>

ContactDigits(c) == IF c.k = "num" \/ c.k = "ts" THEN c ELSE Str(FilterDigits(StrOf(c)))

CoerceNumericRow(row) ==
    [col \in DOMAIN row |-> IF col \in numeric_cols THEN to_numeric(row[col]) ELSE row[col]]

CoerceNumeric(t) == [i \in DOMAIN t |-> CoerceNumericRow(t[i])]

adjust_column_datatypes(t) ==
    [i \in DOMAIN t |->
        Set(Set(CoerceNumericRow(t[i]), "createdAt", to_datetime(t[i].createdAt)),
            "contact", ContactDigits(t[i].contact))]

\* ----------------------------------------------- pre_process_listings_data

\* DataFrame.reset_index(inplace=True): the old index becomes a column named
\* "index", or "level_0" when "index" is taken; with both taken it raises
CanResetIndex(t) == ~({"index", "level_0"} \subseteq Columns(t))

IndexColumn(t) == IF "index" \in Columns(t) THEN "level_0" ELSE "index"

reset_index(t) == [i \in DOMAIN t |-> Set(t[i], IndexColumn(t), Num(Val(i - 1, 0)))]

\* DataFrame.fillna(0)
fillna(t) ==
    [i \in DOMAIN t |->
        [col \in DOMAIN t[i] |-> IF t[i][col].k = "nan" THEN Num(0) ELSE t[i][col]]]

\* markerColor gone wrong: 50 reviews are not yet orange
markerColorAbove(x) ==
    IF x >= Val(100, 0) THEN "green"
    ELSE IF x > Val(50, 0) THEN "orange"
    ELSE IF x >= Val(25, 0) THEN "lightgray"
    ELSE "red"

markerColor(x) ==
    IF x >= Val(100, 0) THEN "green"
    ELSE IF x >= Val(50, 0) THEN "orange"
    ELSE IF x >= Val(25, 0) THEN "lightgray"
    ELSE "red"

\* astype(int): the fraction is cut off
AsInt(x) == (x \div NumScale) * NumScale

\* adjusted_reviews gone wrong: 100 reviews already fall into "100-200"
adjusted_reviews_from100(review) ==
    IF review >= Val(200, 0) THEN "More than 200"
    ELSE IF Val(100, 0) <= review /\ review <= Val(200, 0) THEN "100-200"
    ELSE IF Val(50, 0) < review /\ review <= Val(100, 0) THEN "50 to 100"
    ELSE "Up-to 50"

adjusted_reviews(review) ==
    IF review >= Val(200, 0) THEN "More than 200"
    ELSE IF Val(100, 0) < review /\ review <= Val(200, 0) THEN "100-200"
    ELSE IF Val(50, 0) < review /\ review <= Val(100, 0) THEN "50 to 100"
    ELSE "Up-to 50"

\* adjustedRating gone wrong: rounded to the nearest star
adjustedRatingRounded(x) == ((x + HalfScale) \div NumScale) * NumScale

\* int(x // 1)
adjustedRating(x) == (x \div NumScale) * NumScale

\* x.split(', '): a text has parts; the zero of fillna has no split at all
HasSplit(c) == c.k = "str"

Segments(c) == split(c.s, CommaBlank)

\* CitySegment gone wrong: the last segment instead of the second-to-last
CitySegmentLast(segs) == segs[Len(segs)]

\* x.split(', ')[-2].split(' ')[-1]
CitySegment(segs) == segs[Len(segs) - 1]

LastToken(seg) == LET toks == split(seg, Blank) IN toks[Len(toks)]

CityOf(c) == LastToken(CitySegment(Segments(c)))

\* CityError gone wrong: the third-to-last segment is asked for
CityErrorThird(c) ==
    IF ~HasSplit(c) THEN "AttributeError"
    ELSE IF Len(Segments(c)) < 3 THEN "IndexError"
    ELSE "none"

\* the exception the city lambda raises on address cell c, or "none"
CityError(c) ==
    IF ~HasSplit(c) THEN "AttributeError"
    ELSE IF Len(Segments(c)) < 2 THEN "IndexError"
    ELSE "none"

\* the first row whose address the city lambda fails on
FirstCityError(t) ==
    IF \A i \in DOMAIN t : CityError(t[i].address) = "none" THEN "none"
    ELSE LET i == CHOOSE j \in DOMAIN t :
                    /\ CityError(t[j].address) # "none"
                    /\ \A h \in 1..(j - 1) : CityError(t[h].address) = "none"
         IN CityError(t[i].address)

WithMarkerColor(t) ==
    [i \in DOMAIN t |->
        LET r == Set(t[i], "markerColor", Str(<<markerColor(t[i].totalReviews.n)>>))
        IN Set(r, "totalReviews", Num(AsInt(t[i].totalReviews.n)))]

WithCity(t) == [i \in DOMAIN t |-> Set(t[i], "city", Str(CityOf(t[i].address)))]

WithAdjusted(t) ==
    [i \in DOMAIN t |->
        LET r == Set(t[i], "adjustedReview", Str(<<adjusted_reviews(t[i].totalReviews.n)>>))
        IN Set(r, "adjustedRating", Num(adjustedRating(t[i].averageRating.n)))]

\* the key of data.sort_values(by='totalReviews')
SortKey(row) == row.totalReviews.n

Perms(n) == {p \in [1..n -> 1..n] : \A i, j \in 1..n : p[i] = p[j] => i = j}

\* sort_values, default kind (quicksort): ascending, the order of equal keys
\* is not fixed
SortedOrders(t) ==
    {[i \in DOMAIN t |-> t[p[i]]] : p \in
        {q \in Perms(Len(t)) : \A i, j \in DOMAIN t : i < j => SortKey(t[q[i]]) <= SortKey(t[q[j]])}}

Outcome(e, t) == [err |-> e, rows |-> t]

\* every way one call pre_process_listings_data(t) can end: the exception (or
\* "none") and the frame as the call leaves it (the frame is changed in place,
\* so a call that raises leaves the columns it had got to)
pre_process_listings_data(t) ==
    IF ~CanResetIndex(t) THEN {Outcome("ValueError", t)}
    ELSE LET t1 == reset_index(t) IN
    IF \E i \in DOMAIN t1 : ~DateParseable(t1[i].createdAt)
    THEN {Outcome("DateParseError", CoerceNumeric(t1))}
    ELSE LET t2 == WithMarkerColor(fillna(adjust_column_datatypes(t1))) IN
    IF FirstCityError(t2) # "none" THEN {Outcome(FirstCityError(t2), t2)}
    ELSE {Outcome("none", s) : s \in SortedOrders(WithAdjusted(WithCity(t2)))}

\* ------------------------------------------------------------------ inputs

Txt(w) == Str(<<w>>)

AddrBern3 == Str(<<"Main", " ", "St", " ", "5", ",", " ", "3000", " ", "Bern", ",", " ", "Switzerland">>)
AddrBern2 == Str(<<"Main", " ", "St", " ", "5", ",", " ", "3000", " ", "Bern">>)
AddrOne == Str(<<"Bern">>)
AddrEmpty == Str(<<>>)

CleanRow(name, address, rating, reviews) ==
    [name |-> Txt(name), address |-> address, contact |-> Str(<<"+", "4", "1", " ", "3", "1">>),
     averageRating |-> Num(rating), totalReviews |-> Num(reviews),
     latitude |-> Num(Val(46, 9)), longitude |-> Num(Val(7, 4)),
     id |-> Num(Val(1, 0)), createdAt |-> Str(<<"2", "0", "2", "1">>)]

CleanRows ==
    {CleanRow(nm, a, r, n) :
        nm \in {"A", "B"}, a \in {AddrBern3, AddrBern2},
        r \in {Val(4, 5), Val(3, 0)}, n \in {Val(49, 0), Val(51, 0)}}

BaseRow == CleanRow("A", AddrBern3, Val(4, 5), Val(51, 0))

Junk == Txt("unknown")

\* a clean row with one field spoilt
SpoiltRows ==
    {Set(BaseRow, col, v) : col \in numeric_cols, v \in {Junk, NaN}}
    \cup {Set(BaseRow, "totalReviews", Str(<<"7", "5">>))}
    \cup {Set(BaseRow, "totalReviews", Num(Val(99, 5)))}
    \cup {Set(BaseRow, "createdAt", v) : v \in {Junk, NaN, Ts(7)}}
    \cup {Set(BaseRow, "address", v) : v \in {AddrOne, AddrEmpty, NaN}}
    \cup {Set(BaseRow, "contact", NaN)}
    \cup {Set(Set(BaseRow, "createdAt", Junk), "address", AddrOne)}

RawRows == CleanRows \cup SpoiltRows

Tables(rows, n) == UNION {[1..m -> rows] : m \in 1..n}

\* ----------------------------------------------------------------- actions

IdleListings == raw = <<>> /\ data = <<>> /\ prev = <<>> /\ runs = 0 /\ err = "none"
IdleSentiment == srow = None /\ score = None
IdleTop == places = <<>> /\ top_places = None
NoKpis == [k |-> "none"]
NoPick == [k |-> "none"]
IdleReviews == rraw = <<>> /\ rruns = 0 /\ rerr = "none"
IdleApp ==
    /\ reviews_data = <<>> /\ base = <<>> /\ pc = "idle"
    /\ filtered_data = <<>> /\ kpis = NoKpis /\ aerr = "none"
    /\ picked = NoPick /\ IdleReviews

InitListings ==
    /\ IdleSentiment /\ IdleTop /\ IdleApp
    /\ raw \in Tables(RawRows, MaxRows)
    /\ data = raw
    /\ prev = raw
    /\ runs = 0
    /\ err = "none"

\* data = pre_process_listings_data(data) (utils.py:22), on the raw table
PreProcessListings ==
    /\ runs = 0
    /\ \E o \in pre_process_listings_data(data) :
        /\ data' = o.rows
        /\ err' = o.err
    /\ prev' = data
    /\ runs' = 1
    /\ UNCHANGED <<raw, svars, tvars, avars, rvars>>

\* the normalizer applied to its own output
PreProcessAgain ==
    /\ runs \in 1..2
    /\ err = "none"
    /\ \E o \in pre_process_listings_data(data) :
        /\ data' = o.rows
        /\ err' = o.err
    /\ prev' = data
    /\ runs' = runs + 1
    /\ UNCHANGED <<raw, svars, tvars, avars, rvars>>

NextListings == PreProcessListings \/ PreProcessAgain

SpecListings == InitListings /\ [][NextListings]_vars

\* sheets of one listing: every review count with one rating, and every
\* rating from 0.0 to 5.0 (or none) with one review count
GradedSheets ==
    {<<Set(BaseRow, "totalReviews", c)>> :
        c \in {Num(Val(n, 0)) : n \in 0..MaxCount} \cup {NaN}}
    \cup {<<Set(Set(BaseRow, "totalReviews", Num(Val(75, 0))), "averageRating", c)>> :
        c \in {Num(x) : x \in 0..Val(5, 0)} \cup {NaN}}

InitGrades ==
    /\ IdleSentiment /\ IdleTop /\ IdleApp
    /\ raw \in GradedSheets
    /\ data = raw
    /\ prev = raw
    /\ runs = 0
    /\ err = "none"

NextGrades == PreProcessListings

SpecGrades == InitGrades /\ [][NextGrades]_vars

\* ---------------------------------------------- calculate_sentiment_score

SupportedLanguages == {"en", "de", "fr"}

\* RatingScore gone wrong: the rating itself is returned as the score
RatingScoreRaw(rating) == Num(rating)

\* the rating branch (utils.py:207-217); a rating that matches no case falls
\* through to the final `return None`
RatingScore(rating) ==
    IF rating = Val(5, 0) THEN Num(NumScale)
    ELSE IF rating = Val(4, 0) THEN Num(HalfScale)
    ELSE IF rating = Val(3, 0) THEN Num(0)
    ELSE IF rating = Val(2, 0) THEN Num(-HalfScale)
    ELSE IF rating = Val(1, 0) THEN Num(-NumScale)
    ELSE NaN

\* calculate_sentiment_score gone wrong: the test for a text without words
\* comes before the test for the language
calculate_sentiment_score_words_first(row) ==
    IF Len(row.text.s) = 0 \/ row.language \notin SupportedLanguages
    THEN RatingScore(row.rating.n)
    ELSE Num(row.polarity)

\* row.polarity is what the analyzer of row.language (TextBlob, TextBlobDE,
\* PatternAnalyzer) answers for row.text
calculate_sentiment_score(row) ==
    IF row.language \in SupportedLanguages
    THEN IF row.language = "en" THEN Num(row.polarity)
         ELSE IF row.language = "de" THEN Num(row.polarity)
         ELSE Num(row.polarity)
    ELSE IF Len(row.text.s) = 0 \/ row.language \notin SupportedLanguages
         THEN RatingScore(row.rating.n)
         ELSE NaN

Texts == {<<>>, <<"nan">>, <<"gut">>}
Languages == SupportedLanguages \cup {"it"}
Ratings == {Val(r, 0) : r \in 0..MaxRating} \cup {Val(4, 5)}
\* a polarity lies in [-1, 1]; a text without words has polarity 0
Polarities(text) == IF text = <<>> THEN {0} ELSE (-NumScale)..NumScale

InitSentiment ==
    /\ IdleListings /\ IdleTop /\ IdleApp
    /\ \E t \in Texts, l \in Languages, r \in Ratings :
        \E p \in Polarities(t) :
            srow = [text |-> Str(t), language |-> l, rating |-> Num(r), polarity |-> p]
    /\ score = None

\* df.apply(calculate_sentiment_score, axis=1) (utils.py:232), one row of it
ScoreReview ==
    /\ score = None
    /\ score' = calculate_sentiment_score(srow)
    /\ UNCHANGED <<srow, lvars, tvars, avars, rvars>>

NextSentiment == ScoreReview

SpecSentiment == InitSentiment /\ [][NextSentiment]_vars

\* -------------------------------------------------- top_performing_places

TopN == 30

Frac(a, b) == [num |-> a, den |-> b]

RECURSIVE SumCol(_, _, _)
SumCol(t, col, S) ==
    IF S = {} THEN 0
    ELSE LET i == CHOOSE j \in S : TRUE IN t[i][col].n + SumCol(t, col, S \ {i})

RECURSIVE SumTotals(_)
SumTotals(G) ==
    IF G = {} THEN 0
    ELSE LET g == CHOOSE h \in G : TRUE IN g.totalReviews.n + SumTotals(G \ {g})

\* df.dropna(subset=["averageRating"])
dropna(t) == SelectSeq(t, LAMBDA r : r.averageRating.k # "nan")

\* df.groupby("name").agg({"averageRating": "mean", "totalReviews": "sum"})
GroupByName(t) ==
    {LET S == {i \in DOMAIN t : t[i].name = nm}
     IN [name |-> nm,
         averageRating |-> Frac(SumCol(t, "averageRating", S), Cardinality(S)),
         totalReviews |-> Num(SumCol(t, "totalReviews", S))] :
        nm \in {t[i].name : i \in DOMAIN t}}

\* Qualifies gone wrong: the comparison with the threshold is turned round
QualifiesBelow(g, G) == g.totalReviews.n * Cardinality(G) <= SumTotals(G)

\* df["totalReviews"] >= df["totalReviews"].mean()
Qualifies(g, G) == g.totalReviews.n * Cardinality(G) >= SumTotals(G)

\* (averageRating / totalReviews) * 100, the rating being a mean num/den
RankOf(g) == Frac(g.averageRating.num * 100, g.averageRating.den * g.totalReviews.n)

WithRank(G) == {[name |-> g.name, averageRating |-> g.averageRating,
                 totalReviews |-> g.totalReviews, rank |-> RankOf(g)] : g \in G}

\* a float division by zero: x/0 is inf, 0/0 is NaN
IsNaNRank(r) == r.den = 0 /\ r.num = 0
IsInfRank(r) == r.den = 0 /\ r.num > 0

\* a may stand before b in sort_values(by="rank", ascending=False): NaN last
MayPrecede(a, b) ==
    \/ IsNaNRank(b)
    \/ /\ ~IsNaNRank(a)
       /\ \/ IsInfRank(a)
          \/ ~IsInfRank(b) /\ a.num * b.den >= b.num * a.den

\* the rows that may stand first: no other row has to precede them
FirstInOrder(G) == {g \in G : \A h \in G : MayPrecede(g.rank, h.rank)}

\* df.sort_values(by="rank", ascending=False): every order the sort may leave,
\* rows of equal rank in any order
RECURSIVE SortedByRankDesc(_)
SortedByRankDesc(G) ==
    IF G = {} THEN {<<>>}
    ELSE UNION {{<<g>> \o q : q \in SortedByRankDesc(G \ {g})} : g \in FirstInOrder(G)}

head(q, n) == SubSeq(q, 1, IF Len(q) < n THEN Len(q) ELSE n)

\* every frame top_places can be after head(30) (plots.py:228-238)
top_performing_places(df) ==
    LET G == GroupByName(dropna(df))
        kept == {g \in G : Qualifies(g, G)}
    IN {head(q, TopN) : q \in SortedByRankDesc(WithRank(kept))}

PlaceRows ==
    {[name |-> Txt(nm), averageRating |-> Num(r), totalReviews |-> Num(n)] :
        nm \in {"A", "B"}, r \in {Val(4, 5), Val(3, 0)},
        n \in {Val(0, 0), Val(49, 0), Val(51, 0)}}

\* a sheet of n listings of n names, every one with `total` reviews, the
\* ratings rising by a tenth from one listing to the next
LongSheet(n, low, total) ==
    [i \in 1..n |-> [name |-> Str(<<"P", ToString(i)>>),
                     averageRating |-> Num(low + i),
                     totalReviews |-> Num(total)]]

LongSheets ==
    {LongSheet(n, low, total) :
        n \in 1..MaxLong, low \in {0, Val(1, 0)}, total \in {Val(49, 0), Val(51, 0)}}

InitTop ==
    /\ IdleListings /\ IdleSentiment /\ IdleApp
    /\ places \in Tables(PlaceRows, MaxPlaces) \cup LongSheets
    /\ top_places = None

TopPerformingPlaces ==
    /\ top_places = None
    /\ \E q \in top_performing_places(places) : top_places' = [k |-> "frame", n |-> 0, s |-> q]
    /\ UNCHANGED <<places, lvars, svars, avars, rvars>>

NextTop == TopPerformingPlaces

SpecTop == InitTop /\ [][NextTop]_vars

\* ------------------------------------------------------ pre_process_reviews

\* the calendar: 12 months of 30 days, counted from 2020; an instant is a day
\* and a part of it
Stamp(y, m, d, part) == (((y - 2020) * 12 + (m - 1)) * 30 + (d - 1)) * DayParts + part
DayNumber(n) == n \div DayParts
YearOf(n) == 2020 + (DayNumber(n) \div 360)
MonthOf(n) == ((DayNumber(n) % 360) \div 30) + 1
DayOfMonth(n) == (DayNumber(n) % 30) + 1

Pad2(x) == IF x < 10 THEN <<"0", ToString(x)>> ELSE <<ToString(x)>>

\* strftime("%d-%m-%Y")
strftime(n) == Str(Pad2(DayOfMonth(n)) \o <<"-">> \o Pad2(MonthOf(n)) \o <<"-", ToString(YearOf(n))>>)

\* astype(str)
AsStr(c) ==
    IF c.k = "str" THEN c
    ELSE IF c.k = "nan" THEN Str(<<"nan">>)
    ELSE Str(<<ToString(c.n \div NumScale)>>)

adjust_column_datatypes_of_reviews(t) ==
    [i \in DOMAIN t |->
        Set(Set(Set(t[i], "datetime", to_datetime(t[i].datetime)),
                "text", AsStr(t[i].text)),
            "rating", to_numeric(t[i].rating))]

\* reset_index(inplace=True) of a frame whose index was never renumbered: the
\* labels are the positions of the raw frame, which the first run put in "index"
reset_index_kept(t) ==
    [i \in DOMAIN t |->
        Set(t[i], IndexColumn(t), IF "index" \in Columns(t) THEN t[i].index ELSE Num(Val(i - 1, 0)))]

WithDate(t) == [i \in DOMAIN t |-> Set(t[i], "date", strftime(t[i].datetime.n))]

\* SortedByDatetime gone wrong: the latest review first
SortedByDatetimeDesc(t) ==
    {[i \in DOMAIN t |-> t[p[i]]] : p \in
        {q \in Perms(Len(t)) : \A i, j \in DOMAIN t : i < j => t[q[i]].datetime.n >= t[q[j]].datetime.n}}

\* sort_values(by="datetime", ascending=True), ties in any order
SortedByDatetime(t) ==
    {[i \in DOMAIN t |-> t[p[i]]] : p \in
        {q \in Perms(Len(t)) : \A i, j \in DOMAIN t : i < j => t[q[i]].datetime.n <= t[q[j]].datetime.n}}

\* every way one call pre_process_reviews(t) can end
pre_process_reviews(t) ==
    IF ~CanResetIndex(t) THEN {Outcome("ValueError", t)}
    ELSE LET t1 == reset_index_kept(t) IN
    IF \E i \in DOMAIN t1 : ~DateParseable(t1[i].datetime)
    THEN {Outcome("DateParseError", t1)}
    ELSE LET t2 == fillna(adjust_column_datatypes_of_reviews(t1)) IN
    \* a NaT filled with 0 leaves an object column, which has no .dt
    IF \E i \in DOMAIN t2 : t2[i].datetime.k # "ts" THEN {Outcome("AttributeError", t2)}
    ELSE {Outcome("none", q) : q \in SortedByDatetime(WithDate(t2))}

\* pre_process_data: the pairs of frames it can return
pre_process_data(listings, reviews) ==
    {[data |-> lo.rows, reviews |-> ro.rows] :
        lo \in {o \in pre_process_listings_data(listings) : o.err = "none"},
        ro \in {o \in pre_process_reviews(reviews) : o.err = "none"}}

\* ------------------------------------------------------------------ app.py

Unique(t, col) == {t[i][col] : i \in DOMAIN t}

Picks(S) == {P \in SUBSET S : Cardinality(P) <= MaxPick}

isin(t, col, P) == SelectSeq(t, LAMBDA r : r[col] \in P)

\* map_view: the frame create_map is given
map_view(name, address, city) ==
    LET f0 == data
        f1 == IF name # {} THEN isin(f0, "name", name) ELSE f0
        f2 == IF address # {} THEN isin(f1, "address", address) ELSE f1
    IN IF city # {} THEN isin(f2, "city", city) ELSE f2

HasNaN(r) == \E col \in DOMAIN r : r[col].k = "nan"

All == Txt("All")

filter_data(stars, reviews, name, city) ==
    LET df0 == data
        df1 == isin(df0, "adjustedRating", stars)
        df2 == isin(df1, "adjustedReview", reviews)
        df3 == isin(df2, "city", city)
        df4 == IF name # All THEN SelectSeq(df3, LAMBDA r : r.name = name) ELSE df3
    IN SelectSeq(df4, LAMBDA r : ~HasNaN(r))

StarOptions == {Num(Val(k, 0)) : k \in 1..5}
ReviewOptions == {Txt("Up-to 50"), Txt("50 to 100"), Txt("100-200"), Txt("More than 200")}

\* df.sort_values(['totalReviews', 'averageRating'], ascending=[False, False])
ListedBefore(a, b) ==
    \/ a.totalReviews.n > b.totalReviews.n
    \/ a.totalReviews.n = b.totalReviews.n /\ a.averageRating.n >= b.averageRating.n

display_list_view(df) ==
    {[i \in DOMAIN df |-> df[p[i]]] : p \in
        {q \in Perms(Len(df)) : \A i, j \in DOMAIN df : i < j => ListedBefore(df[q[i]], df[q[j]])}}

\* Series.dt.date of a datetime64 column
DateOf(c) == [k |-> "date", n |-> DayNumber(c.n), s |-> <<>>]

HasDt(t) == \A i \in DOMAIN t : t[i].datetime.k = "ts"

WithDates(t) == [i \in DOMAIN t |-> Set(t[i], "datetime", DateOf(t[i].datetime))]

ReviewColumns == {"datetime", "place_Name", "rating", "reviewer", "text"}

filter_reviews_data(rd, pharmacy, start_date, end_date) ==
    LET f == SelectSeq(rd, LAMBDA r :
                /\ r.datetime.n >= start_date /\ r.datetime.n <= end_date
                /\ r.place_Name = pharmacy)
    IN [i \in DOMAIN f |->
            [col \in ReviewColumns |->
                IF col = "datetime" THEN to_datetime(f[i][col]) ELSE f[i][col]]]

\* total_reviews / total_years divides two Python ints
DivisionError(fd) == Cardinality({YearOf(fd[i].datetime.n) : i \in DOMAIN fd}) = 0

\* calculate_kpis gone wrong: the rating ratio is taken over the subset
calculate_kpis_of_subset(fd, rd) ==
    LET total_reviews == Len(fd)
        rating_sum == SumCol(fd, "rating", DOMAIN fd)
        total_years == Cardinality({YearOf(fd[i].datetime.n) : i \in DOMAIN fd})
    IN [k |-> "kpis",
        total_reviews |-> total_reviews,
        average_ratings |-> Frac(rating_sum, total_reviews * NumScale),
        yearly_reviews_rate_percentage |-> Frac(total_reviews, total_years),
        rating_ratio |-> Frac(rating_sum * 100, Len(fd) * NumScale)]

calculate_kpis(fd, rd) ==
    LET total_reviews == Len(fd)
        rating_sum == SumCol(fd, "rating", DOMAIN fd)
        total_years == Cardinality({YearOf(fd[i].datetime.n) : i \in DOMAIN fd})
    IN [k |-> "kpis",
        total_reviews |-> total_reviews,
        average_ratings |-> Frac(rating_sum, total_reviews * NumScale),
        yearly_reviews_rate_percentage |-> Frac(total_reviews, total_years),
        rating_ratio |-> Frac(rating_sum * 100, Len(rd) * NumScale)]

AppListingRows ==
    {CleanRow("A", AddrBern3, Val(4, 5), Val(51, 0)),
     CleanRow("B", AddrBern3, Val(3, 0), Val(49, 0))}

ReviewRow(place, rating, at) ==
    [place_Name |-> Txt(place), reviewer |-> Txt("R"), text |-> Txt("gut"),
     rating |-> Num(rating), datetime |-> Ts(at)]

AppReviewRows ==
    {ReviewRow(pl, r, at) :
        pl \in {"A", "B"}, r \in {Val(2, 0), Val(5, 0)},
        at \in {Stamp(2021, 3, 5, 0), Stamp(2021, 3, 5, 1), Stamp(2022, 1, 1, 1)}}

\* a clean review with one field spoilt
SpoiltReviewRows ==
    LET r == ReviewRow("A", Val(5, 0), Stamp(2021, 3, 5, 1)) IN
    {Set(r, "rating", v) : v \in {Junk, NaN, Str(<<"4">>)}}
    \cup {Set(r, "datetime", v) : v \in {Junk, NaN, Str(<<"7">>)}}
    \cup {Set(r, "text", v) : v \in {NaN, Num(Val(7, 0))}}

RawReviewRows ==
    AppReviewRows
    \cup {ReviewRow("A", Val(4, 0), Stamp(2021, 12, 25, 0))}
    \cup SpoiltReviewRows

InitReviews ==
    /\ IdleListings /\ IdleSentiment /\ IdleTop
    /\ rraw \in Tables(RawReviewRows, MaxReviews)
    /\ reviews_data = rraw
    /\ rruns = 0 /\ rerr = "none"
    /\ base = <<>> /\ pc = "idle" /\ filtered_data = <<>> /\ kpis = NoKpis
    /\ aerr = "none" /\ picked = NoPick

\* reviews_data = pre_process_reviews(reviews_data) (utils.py:23), on the raw table
PreProcessReviews ==
    /\ rruns = 0
    /\ \E o \in pre_process_reviews(reviews_data) :
        /\ reviews_data' = o.rows
        /\ rerr' = o.err
    /\ rruns' = 1
    /\ UNCHANGED <<rraw, lvars, svars, tvars, base, pc, filtered_data, kpis, aerr, picked>>

\* the normalizer applied to its own output
PreProcessReviewsAgain ==
    /\ rruns \in 1..2
    /\ rerr = "none"
    /\ \E o \in pre_process_reviews(reviews_data) :
        /\ reviews_data' = o.rows
        /\ rerr' = o.err
    /\ rruns' = rruns + 1
    /\ UNCHANGED <<rraw, lvars, svars, tvars, base, pc, filtered_data, kpis, aerr, picked>>

NextReviews == PreProcessReviews \/ PreProcessReviewsAgain

SpecReviews == InitReviews /\ [][NextReviews]_vars

InitApp ==
    /\ IdleSentiment /\ IdleTop
    /\ raw \in Tables(AppListingRows, MaxRows)
    /\ rraw \in Tables(AppReviewRows, MaxReviews)
    /\ base \in pre_process_data(raw, rraw)
    /\ data = base.data
    /\ reviews_data = base.reviews
    /\ prev = raw /\ runs = 1 /\ err = "none"
    /\ rruns = 1 /\ rerr = "none"
    /\ pc = "loaded" /\ filtered_data = <<>> /\ kpis = NoKpis /\ aerr = "none"
    /\ picked = NoPick

\* menu == "Pharmacies Map"
MapView ==
    /\ pc = "loaded"
    /\ \E name \in Picks(Unique(data, "name")),
          address \in Picks(Unique(data, "address")),
          city \in Picks(Unique(data, "city")) :
        /\ filtered_data' = map_view(name, address, city)
        /\ picked' = [k |-> "map", name |-> name, address |-> address, city |-> city]
    /\ pc' = "map"
    /\ UNCHANGED <<lvars, svars, tvars, rvars, reviews_data, base, kpis, aerr>>

\* menu == "List View"
ListView ==
    /\ pc = "loaded"
    /\ \E stars \in Picks(StarOptions), reviews \in Picks(ReviewOptions),
          name \in {All} \cup Unique(data, "name"),
          city \in Picks(Unique(data, "city")) :
        \E shown \in display_list_view(filter_data(
                IF stars = {} THEN StarOptions ELSE stars,
                IF reviews = {} THEN Unique(data, "adjustedReview") ELSE reviews,
                name,
                IF city = {} THEN Unique(data, "city") ELSE city)) :
            /\ filtered_data' = shown
            /\ picked' = [k |-> "list", stars |-> stars, reviews |-> reviews,
                          name |-> name, city |-> city]
    /\ pc' = "list"
    /\ UNCHANGED <<lvars, svars, tvars, rvars, reviews_data, base, kpis, aerr>>

\* menu == "Reviews Analysis": reviews_analysis, filter_reviews_data,
\* display_reviews_analysis as far as calculate_kpis
ReviewsAnalysis ==
    /\ pc = "loaded"
    /\ pc' = "reviews"
    /\ IF ~HasDt(reviews_data)
       THEN /\ aerr' = "AttributeError"
            /\ UNCHANGED <<reviews_data, filtered_data, kpis, picked>>
       ELSE /\ reviews_data' = WithDates(reviews_data)
            /\ \E pharmacy \in Unique(reviews_data, "place_Name") :
               \E start_date, end_date \in {c.n : c \in Unique(reviews_data', "datetime")} :
                /\ start_date <= end_date
                /\ filtered_data' = filter_reviews_data(reviews_data', pharmacy, start_date, end_date)
                /\ picked' = [k |-> "reviews", pharmacy |-> pharmacy,
                              start_date |-> start_date, end_date |-> end_date]
            /\ IF DivisionError(filtered_data')
               THEN /\ aerr' = "ZeroDivisionError"
                    /\ UNCHANGED kpis
               ELSE /\ aerr' = "none"
                    /\ kpis' = calculate_kpis(filtered_data', reviews_data')
    /\ UNCHANGED <<lvars, svars, tvars, rvars, base>>

\* an interaction runs the script again from the top: the tables are read and
\* normalized anew (app.py:48-56)
Rerun ==
    /\ pc \in {"map", "list", "reviews"}
    /\ pc' = "loaded"
    /\ data' = base.data
    /\ reviews_data' = base.reviews
    /\ filtered_data' = <<>> /\ kpis' = NoKpis /\ aerr' = "none" /\ picked' = NoPick
    /\ UNCHANGED <<raw, prev, runs, err, svars, tvars, rvars, base>>

NextApp == MapView \/ ListView \/ ReviewsAnalysis \/ Rerun

SpecApp == InitApp /\ [][NextApp]_vars

\* listings for the list view, one of them rated below one star and one
\* without a rating in the sheet
ListRows ==
    AppListingRows
    \cup {CleanRow("C", AddrBern3, Val(0, 5), Val(75, 0)),
          Set(CleanRow("C", AddrBern2, Val(0, 0), Val(120, 0)), "averageRating", NaN)}

InitList ==
    /\ IdleSentiment /\ IdleTop
    /\ raw \in Tables(ListRows, MaxRows)
    /\ rraw = <<ReviewRow("A", Val(5, 0), Stamp(2021, 3, 5, 0))>>
    /\ base \in pre_process_data(raw, rraw)
    /\ data = base.data
    /\ reviews_data = base.reviews
    /\ prev = raw /\ runs = 1 /\ err = "none"
    /\ rruns = 1 /\ rerr = "none"
    /\ pc = "loaded" /\ filtered_data = <<>> /\ kpis = NoKpis /\ aerr = "none"
    /\ picked = NoPick

NextList == ListView \/ Rerun

SpecList == InitList /\ [][NextList]_vars

\* the options of display_pharmacy's multiselect (app.py:205-208), a star, the
\* number and a face each: "star 5" is the label of 5 with the smiling face
StarLabels == {"star 5", "star 4", "star 3", "star 2", "star 1"}

\* one turn of get_star_ratings' loop: the fourth test is for the label of 1
\* and appends 2, and the label of 2 falls to the else, which appends 1
StarOfLabel(star) ==
    IF star = "star 5" THEN 5
    ELSE IF star = "star 4" THEN 4
    ELSE IF star = "star 3" THEN 3
    ELSE IF star = "star 1" THEN 2
    ELSE 1

get_star_ratings(rating_list) == {StarOfLabel(star) : star \in rating_list}

\* filtered_reviews_df.sort_values(by="datetime", ascending=False), ties in
\* any order
SortedByDatetimeLatestFirst(t) ==
    {[i \in DOMAIN t |-> t[p[i]]] : p \in
        {q \in Perms(Len(t)) : \A i, j \in DOMAIN t : i < j => t[q[i]].datetime.n >= t[q[j]].datetime.n}}

\* display_reviews: the reviews it writes out, in every order it may
display_reviews(review_star, pharmacy_reviews) ==
    LET star_rating_list == IF review_star = {} THEN {5, 4, 3, 2, 1}
                            ELSE get_star_ratings(review_star)
        filtered_reviews_df ==
            SelectSeq(pharmacy_reviews,
                      LAMBDA r : r.rating \in {Num(Val(n, 0)) : n \in star_rating_list})
    IN SortedByDatetimeLatestFirst(filtered_reviews_df)

StarReviewRows ==
    {ReviewRow(pl, r, at) :
        pl \in {"A", "B"}, r \in {Val(1, 0), Val(2, 0), Val(5, 0)},
        at \in {Stamp(2021, 3, 5, 0), Stamp(2022, 1, 1, 1)}}

InitStars ==
    /\ IdleSentiment /\ IdleTop
    /\ raw \in Tables(AppListingRows, MaxRows)
    /\ rraw \in Tables(StarReviewRows, MaxReviews)
    /\ base \in pre_process_data(raw, rraw)
    /\ data = base.data
    /\ reviews_data = base.reviews
    /\ prev = raw /\ runs = 1 /\ err = "none"
    /\ rruns = 1 /\ rerr = "none"
    /\ pc = "loaded" /\ filtered_data = <<>> /\ kpis = NoKpis /\ aerr = "none"
    /\ picked = NoPick

\* display_pharmacy for one listing of the list view: its reviews, and of
\* them those of the stars selected in its multiselect
DisplayPharmacy ==
    /\ pc = "loaded"
    /\ \E i \in DOMAIN data, review_star \in Picks(StarLabels) :
        LET pharmacy == data[i]
            pharmacy_reviews == SelectSeq(reviews_data, LAMBDA r : r.place_Name = pharmacy.name)
        IN /\ filtered_data' \in display_reviews(review_star, pharmacy_reviews)
           /\ picked' = [k |-> "stars", name |-> pharmacy.name, review_star |-> review_star]
    /\ pc' = "pharmacy"
    /\ UNCHANGED <<lvars, svars, tvars, rvars, reviews_data, base, kpis, aerr>>

NextStars == DisplayPharmacy

SpecStars == InitStars /\ [][NextStars]_vars

\* a normalized review, as pre_process_reviews leaves it
NormalRow(place, rating, at, i) ==
    [place_Name |-> Txt(place), reviewer |-> Txt("R"), text |-> Txt("gut"),
     rating |-> Num(rating), datetime |-> Ts(at),
     index |-> Num(Val(i - 1, 0)), date |-> strftime(at)]

\* a normalized reviews frame of n reviews of pharmacy A, the first `early` of
\* them of 2021 and the others of 2022, the first `fives` rated 5 and the
\* others 3, followed by `others` reviews of pharmacy B
LongReviews(n, fives, early, others) ==
    [i \in 1..(n + others) |->
        IF i <= n
        THEN NormalRow("A", IF i <= fives THEN Val(5, 0) ELSE Val(3, 0),
                       IF i <= early THEN Stamp(2021, 3, 5, 0) ELSE Stamp(2022, 1, 1, 1), i)
        ELSE NormalRow("B", Val(2, 0), Stamp(2022, 1, 1, 1), i)]

InitKpis ==
    /\ IdleSentiment /\ IdleTop
    /\ raw = <<BaseRow>>
    /\ \E o \in pre_process_listings_data(raw) : o.err = "none" /\ data = o.rows
    /\ \E n \in 1..MaxKpiRows :
        \E fives, early \in 0..n, others \in 0..1 :
            reviews_data = LongReviews(n, fives, early, others)
    /\ rraw = [i \in DOMAIN reviews_data |->
                    [col \in ReviewColumns |-> reviews_data[i][col]]]
    /\ base = [data |-> data, reviews |-> reviews_data]
    /\ prev = raw /\ runs = 1 /\ err = "none"
    /\ rruns = 1 /\ rerr = "none"
    /\ pc = "loaded" /\ filtered_data = <<>> /\ kpis = NoKpis /\ aerr = "none"
    /\ picked = NoPick

NextKpis == ReviewsAnalysis

SpecKpis == InitKpis /\ [][NextKpis]_vars

\* ------------------------------------------------- the Listings Normalizer

FirstRunDone == runs = 1
FirstRunOk == runs = 1 /\ err = "none"

\* C2 (as stated): the address "Main St 5, 3000 Bern" gets the city "Bern"
C2_CityBern ==
    FirstRunOk =>
        \A i \in DOMAIN data : data[i].address = AddrBern2 => data[i].city = Txt("Bern")

\* C2 (amended): the city is the last token of the second-to-last segment: for
\* "Main St 5, 3000 Bern" it is "5", and it is "Bern" only when a further
\* segment follows, as in "Main St 5, 3000 Bern, Switzerland"
C2_CitySecondToLast ==
    FirstRunOk =>
        \A i \in DOMAIN data :
            /\ data[i].address = AddrBern2 => data[i].city = Txt("5")
            /\ data[i].address = AddrBern3 => data[i].city = Txt("Bern")

C2_Witness ==
    /\ FirstRunOk
    /\ \E i, j \in DOMAIN data :
        /\ data[i].address = AddrBern2 /\ data[i].city = Txt("5")
        /\ data[j].address = AddrBern3 /\ data[j].city = Txt("Bern")

\* rank(ascending=False, method='min') of row i in column col
DescMinRank(t, col, i) == 1 + Cardinality({j \in DOMAIN t : t[j][col].n > t[i][col].n})

ClaimedRank(t, i) == DescMinRank(t, "totalReviews", i) + DescMinRank(t, "averageRating", i)

\* C3: every listing has a rank = rank of totalReviews descending + rank of
\* averageRating descending (ties share the minimum), and the output table is
\* sorted ascending by it
C3_RankSorted ==
    FirstRunOk =>
        /\ \A i \in DOMAIN data :
            /\ "rank" \in DOMAIN data[i]
            /\ data[i].rank = Num(Val(ClaimedRank(data, i), 0))
        /\ \A i, j \in DOMAIN data : i < j => ClaimedRank(data, i) <= ClaimedRank(data, j)

\* C7: the normalizer applied to its own output succeeds and yields the same
\* table, with no further column
C7_Idempotent == runs = 2 => (err = "none" /\ data = prev)

WellFormedAddresses(t) == \A i \in DOMAIN t : t[i].address.k = "str" /\ Len(Segments(t[i].address)) >= 2

\* C8: the normalizer never raises on an unparseable averageRating, latitude,
\* longitude, totalReviews, id or createdAt: each becomes null, then zero, and
\* the normalization completes
C8_NeverRaises ==
    (FirstRunDone /\ WellFormedAddresses(raw)) =>
        /\ err = "none"
        /\ \A i \in DOMAIN data :
            /\ \A col \in numeric_cols : data[i][col].k = "num"
            /\ data[i].createdAt.k \in {"ts", "num"}

MalformedAddressErrors == {"IndexError", "AttributeError"}

Scored == score # None

\* the table of the claim: 5 -> 1.0, 4 -> 0.5, 3 -> 0.0, 2 -> -0.5, 1 -> -1.0
ClaimedScore(rating) ==
    CASE rating = Val(5, 0) -> Num(NumScale)
      [] rating = Val(4, 0) -> Num(HalfScale)
      [] rating = Val(3, 0) -> Num(0)
      [] rating = Val(2, 0) -> Num(-HalfScale)
      [] rating = Val(1, 0) -> Num(-NumScale)
      [] OTHER -> NaN

\* C5: whenever the text is empty or the language is not en, de, fr, the score
\* is the rating-mapped one, whatever the language of an empty text
C5_Fallback ==
    (Scored /\ (Len(srow.text.s) = 0 \/ srow.language \notin {"en", "de", "fr"}))
        => score = ClaimedScore(srow.rating.n)

\* C6: the score is null or a value in [-1, 1]
C6_ScoreRange ==
    Scored => \/ score.k = "nan"
              \/ score.k = "num" /\ -NumScale <= score.n /\ score.n <= NumScale

C6_Witness ==
    /\ Scored
    /\ srow.language = "it"
    /\ srow.rating = Num(Val(5, 0))
    /\ score = Num(NumScale)

Ranked == top_places # None

MeanIs(t, m) == SumCol(t, "totalReviews", DOMAIN t) = m * Len(t)

RankedNames == {top_places.s[i].name : i \in DOMAIN top_places.s}

\* every retained entry has totalReviews >= the mean totalReviews of the listings
RetainedAboveMean ==
    \A i \in DOMAIN top_places.s :
        top_places.s[i].totalReviews.n * Len(places) >= SumCol(places, "totalReviews", DOMAIN places)

\* C10 (as stated): retained entries have totalReviews >= the listings' mean,
\* and with a mean of 50 a listing with 49 reviews is excluded whatever the
\* names of the others
C10_Below50Excluded ==
    Ranked =>
        /\ RetainedAboveMean
        /\ MeanIs(places, Val(50, 0)) =>
            \A i \in DOMAIN places :
                places[i].totalReviews = Num(Val(49, 0)) => places[i].name \notin RankedNames

SharesName(t, i) == \E j \in DOMAIN t : j # i /\ t[j].name = t[i].name

\* C10 (amended): ... a listing with 49 reviews whose name no other listing
\* has is excluded (listings of one name are summed into one entry)
C10_Below50ExcludedUnlessSummed ==
    Ranked =>
        /\ RetainedAboveMean
        /\ MeanIs(places, Val(50, 0)) =>
            \A i \in DOMAIN places :
                (places[i].totalReviews = Num(Val(49, 0)) /\ ~SharesName(places, i))
                    => places[i].name \notin RankedNames

C10_Witness ==
    /\ Ranked
    /\ MeanIs(places, Val(50, 0))
    /\ Len(top_places.s) = 1
    /\ \E i \in DOMAIN places :
        /\ places[i].totalReviews = Num(Val(49, 0))
        /\ ~SharesName(places, i)
        /\ places[i].name \notin RankedNames

\* the qualifying entries with their scores, as the listings give them
QualifyingEntries ==
    LET G == GroupByName(dropna(places))
    IN WithRank({g \in G : Qualifies(g, G)})

RetainedEntries == {top_places.s[i] : i \in DOMAIN top_places.s}

\* a's score is at most b's
ScoreAtMost(a, b) == MayPrecede(b.rank, a.rank)

\* C11: at most 30 entries are retained and they are the qualifying entries
\* of the lowest scores: no qualifying entry left out has a lower score than
\* a retained one
C11_LowestRetained ==
    Ranked =>
        /\ Len(top_places.s) <= TopN
        /\ RetainedEntries \subseteq QualifyingEntries
        /\ \A r \in RetainedEntries : \A q \in QualifyingEntries \ RetainedEntries :
              ScoreAtMost(r, q)

\* ------------------------------------------------- buckets, colours, stars

\* the listing of the sheet a normalized row comes from
SheetRow(i) == raw[(data[i].index.n \div NumScale) + 1]

\* a listing's review count and rating as the sheet has them, a missing one
\* being zero
SheetCount(i) ==
    IF SheetRow(i).totalReviews.k = "nan" THEN 0 ELSE SheetRow(i).totalReviews.n \div NumScale

SheetRating(i) ==
    IF SheetRow(i).averageRating.k = "nan" THEN 0 ELSE SheetRow(i).averageRating.n

ClaimedBucket(n) ==
    IF n >= 200 THEN "More than 200"
    ELSE IF 100 < n /\ n < 200 THEN "100-200"
    ELSE IF 50 < n /\ n <= 100 THEN "50 to 100"
    ELSE "Up-to 50"

\* C12: every review count n >= 0 gets one bucket: n >= 200 "More than 200",
\* 100 < n < 200 "100-200", 50 < n <= 100 "50 to 100", otherwise "Up-to 50";
\* so 200 is "More than 200", 100 and 75 are "50 to 100", 50 is "Up-to 50"
C12_ReviewBuckets ==
    FirstRunOk =>
        \A i \in DOMAIN data :
            /\ data[i].adjustedReview = Txt(ClaimedBucket(SheetCount(i)))
            /\ SheetCount(i) = 200 => data[i].adjustedReview = Txt("More than 200")
            /\ SheetCount(i) \in {100, 75} => data[i].adjustedReview = Txt("50 to 100")
            /\ SheetCount(i) = 50 => data[i].adjustedReview = Txt("Up-to 50")

C12_Witness ==
    /\ FirstRunOk
    /\ \E i \in DOMAIN data :
        SheetCount(i) = 100 /\ data[i].adjustedReview = Txt("50 to 100")

ClaimedColor(n) ==
    IF n >= 100 THEN "green"
    ELSE IF n >= 50 THEN "orange"
    ELSE IF n >= 25 THEN "lightgray"
    ELSE "red"

\* C13: every review count n >= 0 gets one marker colour: green from 100,
\* orange from 50 to 99, lightgray from 25 to 49, red below 25; 75 is orange
C13_MarkerColors ==
    FirstRunOk =>
        \A i \in DOMAIN data :
            /\ data[i].markerColor = Txt(ClaimedColor(SheetCount(i)))
            /\ SheetCount(i) = 75 => data[i].markerColor = Txt("orange")

C13_Witness ==
    /\ FirstRunOk
    /\ \E i \in DOMAIN data :
        SheetCount(i) = 50 /\ data[i].markerColor = Txt("orange")

\* C16: for an averageRating from 0 to 5 (a missing one counting as 0) the
\* adjustedRating is its floor, a whole number of stars from 0 to 5
C16_FloorRating ==
    FirstRunOk =>
        \A i \in DOMAIN data :
            (0 <= SheetRating(i) /\ SheetRating(i) <= Val(5, 0)) =>
                \E w \in 0..5 :
                    /\ data[i].adjustedRating = Num(Val(w, 0))
                    /\ Val(w, 0) <= SheetRating(i)
                    /\ SheetRating(i) < Val(w + 1, 0)

C16_Witness ==
    /\ FirstRunOk
    /\ \E i \in DOMAIN data :
        SheetRating(i) = Val(3, 7) /\ data[i].adjustedRating = Num(Val(3, 0))

\* ------------------------------------------------------ reviews normalizer

ReviewsRunOk == rruns = 1 /\ rerr = "none"

\* the review of the sheet a normalized review comes from
SheetReview(i) == rraw[(reviews_data[i].index.n \div NumScale) + 1]

\* C15: the output of the reviews normalizer is its input rows in another
\* order, ascending by datetime; every rating is a number, a rating that was
\* no number being 0; every row has a date, its datetime as DD-MM-YYYY
C15_ReviewsNormalized ==
    ReviewsRunOk =>
        /\ Len(reviews_data) = Len(rraw)
        /\ {reviews_data[i].index : i \in DOMAIN reviews_data}
              = {Num(Val(j - 1, 0)) : j \in DOMAIN rraw}
        /\ \A i \in DOMAIN reviews_data :
            /\ reviews_data[i].place_Name = SheetReview(i).place_Name
            /\ reviews_data[i].reviewer = SheetReview(i).reviewer
            /\ SheetReview(i).datetime.k = "ts" => reviews_data[i].datetime = SheetReview(i).datetime
            /\ reviews_data[i].rating.k = "num"
            /\ SheetReview(i).rating.k = "num" => reviews_data[i].rating = SheetReview(i).rating
            /\ SheetReview(i).rating \in {Junk, NaN} => reviews_data[i].rating = Num(0)
            /\ reviews_data[i].datetime.k = "ts"
            /\ reviews_data[i].date = strftime(reviews_data[i].datetime.n)
            /\ DayNumber(reviews_data[i].datetime.n) = DayNumber(Stamp(2021, 3, 5, 0))
                  => reviews_data[i].date = Str(<<"0", "5", "-", "0", "3", "-", "2021">>)
            /\ DayNumber(reviews_data[i].datetime.n) = DayNumber(Stamp(2021, 12, 25, 0))
                  => reviews_data[i].date = Str(<<"25", "-", "12", "-", "2021">>)
        /\ \A i, j \in DOMAIN reviews_data :
              i < j => reviews_data[i].datetime.n <= reviews_data[j].datetime.n

C15_Witness ==
    /\ ReviewsRunOk
    /\ Len(reviews_data) = 2
    /\ reviews_data[1].index = Num(Val(1, 0))
    /\ reviews_data[1].datetime.n < reviews_data[2].datetime.n
    /\ reviews_data[1].date = Str(<<"0", "5", "-", "0", "3", "-", "2021">>)
    /\ SheetReview(1).rating = Junk
    /\ reviews_data[1].rating = Num(0)

\* ------------------------------------------------------------------ the views

ViewRan == pc \in {"map", "list", "reviews"}

\* the number a label of the star filter shows
NumberOnLabel(star) ==
    CASE star = "star 5" -> 5
      [] star = "star 4" -> 4
      [] star = "star 3" -> 3
      [] star = "star 2" -> 2
      [] star = "star 1" -> 1

SelectedStars ==
    IF picked.review_star = {} THEN 1..5
    ELSE {NumberOnLabel(star) : star \in picked.review_star}

ReviewsOfSelectedStars ==
    {reviews_data[i] : i \in {j \in DOMAIN reviews_data :
        /\ reviews_data[j].place_Name = picked.name
        /\ reviews_data[j].rating \in {Num(Val(n, 0)) : n \in SelectedStars}}}

\* C17: display_reviews shows exactly the pharmacy's reviews whose rating is
\* the number on one of the selected labels, and all its reviews rated 1 to
\* 5 when no label is selected
C17_StarFilter ==
    pc = "pharmacy" =>
        /\ {filtered_data[i] : i \in DOMAIN filtered_data} = ReviewsOfSelectedStars
        /\ Len(filtered_data) = Cardinality(ReviewsOfSelectedStars)

RowsOf(t) == {t[i] : i \in DOMAIN t}

\* the listings an empty or "All" selection does not restrict and a selection
\* restricts to its members
ListingsSelected ==
    {r \in RowsOf(data) :
        /\ picked.stars = {} \/ r.adjustedRating \in picked.stars
        /\ picked.reviews = {} \/ r.adjustedReview \in picked.reviews
        /\ picked.city = {} \/ r.city \in picked.city
        /\ picked.name = All \/ r.name = picked.name}

\* C19: the list view shows exactly the listings whose adjustedRating,
\* adjustedReview and city are in the selected sets and whose name matches,
\* an empty selection restricting nothing; with every filter at "All" it
\* shows every listing of the base table
C19_ListFilters ==
    pc = "list" =>
        /\ RowsOf(filtered_data) = ListingsSelected
        /\ (picked.stars = {} /\ picked.reviews = {} /\ picked.city = {} /\ picked.name = All)
              => RowsOf(filtered_data) = RowsOf(data)

\* C1: whatever views have run, the base tables data and reviews_data are as
\* pre_process_data produced them (rows, columns and the type of datetime)
C1_BaseTablesUnchanged == ViewRan => (data = base.data /\ reviews_data = base.reviews)

KpisShown == pc = "reviews" /\ aerr = "none" /\ Len(filtered_data) > 0

\* the fraction f is the number a / b
IsRatio(f, a, b) == f.den # 0 /\ b # 0 /\ f.num * b = a * f.den

\* the ratings of the subset summed, in stars times NumScale
SubsetRatingSum == SumCol(filtered_data, "rating", DOMAIN filtered_data)

SubsetYears == Cardinality({YearOf(filtered_data[i].datetime.n) : i \in DOMAIN filtered_data})

\* C14: for a subset that is not empty, total_reviews is its number of rows,
\* average_rating the sum of its ratings over that number, yearly_rate that
\* number over the number of distinct years, and rating_ratio is
\* average_rating * total_reviews / size of the whole reviews table * 100;
\* 10 reviews of 2 years with ratings summing to 40 give 4.0, 10 and 5.0
C14_KpiScalars ==
    KpisShown =>
        /\ kpis.total_reviews = Len(filtered_data)
        /\ IsRatio(kpis.average_ratings, SubsetRatingSum, Len(filtered_data) * NumScale)
        /\ IsRatio(kpis.yearly_reviews_rate_percentage, Len(filtered_data), SubsetYears)
        /\ IsRatio(kpis.rating_ratio, SubsetRatingSum * 100, Len(reviews_data) * NumScale)
        /\ (Len(filtered_data) = 10 /\ SubsetYears = 2 /\ SubsetRatingSum = Val(40, 0)) =>
              /\ IsRatio(kpis.average_ratings, 4, 1)
              /\ kpis.total_reviews = 10
              /\ IsRatio(kpis.yearly_reviews_rate_percentage, 5, 1)

C14_Witness ==
    /\ KpisShown
    /\ Len(filtered_data) = 10 /\ SubsetYears = 2 /\ SubsetRatingSum = Val(40, 0)
    /\ Len(reviews_data) = 11
    /\ IsRatio(kpis.average_ratings, 4, 1)
    /\ IsRatio(kpis.yearly_reviews_rate_percentage, 5, 1)

\* C4: calculate_kpis on a subset of zero distinct years raises no division
\* error
C4_ZeroYearsGuarded ==
    (pc = "reviews" /\ Len(filtered_data) = 0) => aerr # "ZeroDivisionError"

====
